---------------------------- MODULE Spec2Model ----------------------------
(***************************************************************************)
(* A model of src/datasets/kitti_dataset_1215.py: the VoxelDataset /       *)
(* VoxelKITTIDataset classes (construction, calibration parsing,           *)
(* disparity-to-cloud projection, region-of-interest filtering and the     *)
(* four-level voxel occupancy build of __getitem__).                       *)
(*                                                                         *)
(* Numbers.  Coordinates, voxel sizes and the region of interest are       *)
(* integers (metres).  Values the code keeps as halves are carried doubled *)
(* and say so in their name (ground_y2 = 2 * ground_y, so that the         *)
(* 1.5 of the source is 3).  Python's None is the empty tuple and a        *)
(* present value v is <<v>>, so that "is None" is a comparison TLC can     *)
(* make between values of one kind.                                        *)
(***************************************************************************)
EXTENDS Integers, Sequences, FiniteSets, TLC

VARIABLES
    ctor,   \* outcome of VoxelKITTIDataset.__init__: "unborn", "ok" or "raised"
    self,   \* the attributes of the dataset object
    pc,     \* per worker: its position inside __getitem__
    loc     \* per worker: the local variables of __getitem__ and its callees

vars == <<ctor, self, pc, loc>>

-----------------------------------------------------------------------------
(* Python values *)

None == <<>>
Some(v) == <<v>>
IsNone(o) == o = <<>>
Val(o) == o[1]

Abs(n) == IF n < 0 THEN -n ELSE n
Sign(n) == IF n > 0 THEN 1 ELSE IF n < 0 THEN -1 ELSE 0
Min2(a, b) == IF a <= b THEN a ELSE b

-----------------------------------------------------------------------------
(* VoxelDataset.__init__ *)

\* roi_scale is [min_x, max_x, min_y, max_y, min_z, max_z]
RangeX(roi) == roi[2] - roi[1]
RangeY(roi) == roi[4] - roi[3]
RangeZ(roi) == roi[6] - roi[5]

\* line 33: the test that raises 'Voxel volume range indivisible by voxel
\* sizes.'  A voxel size of 0 raises ZeroDivisionError in the same expression.
IndivisibleMut(roi, voxel_size) ==
    \/ voxel_size = 0
    \/ RangeX(roi) % voxel_size /= 0

Indivisible(roi, voxel_size) ==
    \/ voxel_size = 0
    \/ RangeX(roi) % voxel_size /= 0
    \/ RangeY(roi) % voxel_size /= 0
    \/ RangeZ(roi) % voxel_size /= 0

\* lines 36-39: one (grid_size_x, grid_size_y, grid_size_z) per voxel size
GridSize(roi, voxel_size) ==
    << RangeX(roi) \div voxel_size,
       RangeY(roi) \div voxel_size,
       RangeZ(roi) \div voxel_size >>

\* lines 25-39: TRUE when the constructor of the base class raises (the
\* assertion on the number of voxel sizes, or the divisibility test of some
\* level)
BaseInitRaises(roi, voxel_sizes) ==
    \/ Len(voxel_sizes) /= 4
    \/ \E l \in 1..Len(voxel_sizes) : Indivisible(roi, voxel_sizes[l])

\* lines 28-39: self.grid_sizes after the loop
GridSizes(roi, voxel_sizes) ==
    [l \in 1..Len(voxel_sizes) |-> GridSize(roi, voxel_sizes[l])]


-----------------------------------------------------------------------------
(* VoxelKITTIDataset.load_path and VoxelKITTIDataset.__init__ *)

\* The list file is a sequence of lines, each line the sequence of its
\* whitespace-separated fields.  A file name is modelled by the field itself.

\* lines 261-264 read x[0], x[1] and x[-1] of every line; lines 267-273 read
\* len(splits[0]), then x[2] (and x[3]) of every line.  Any of them out of
\* range is an IndexError.
LoadPathRaises(lines) ==
    \/ \E i \in 1..Len(lines) : Len(lines[i]) < 2
    \/ Len(lines) = 0
    \/ /\ Len(lines[1]) >= 4
       /\ \E i \in 1..Len(lines) : Len(lines[i]) < 3
    \/ /\ Len(lines[1]) > 4
       /\ \E i \in 1..Len(lines) : Len(lines[i]) < 4

\* lines 267-268: self.disp_filenames, None unless the first line has at
\* least four fields
DispFilenames(lines) ==
    IF Len(lines[1]) >= 4
    THEN Some([i \in 1..Len(lines) |-> lines[i][3]])
    ELSE None

\* lines 271-272: self.stored_gt
StoredGtMut(lines) == Len(lines[1]) >= 4

StoredGt(lines) == Len(lines[1]) > 4

\* line 273: self.gt_voxel_filenames
GtVoxelFilenames(lines) ==
    IF Len(lines[1]) > 4
    THEN Some([i \in 1..Len(lines) |-> lines[i][4]])
    ELSE None

\* line 253: self.ground_y = 1.5, doubled
GroundY2 == 3

\* lines 15-46 and 238-253: the attributes of a freshly constructed object.
\* occupied_gates is stored as given (line 46); ground_y is 1.5 (line 253).
NewObject(roi, voxel_sizes, filter_ground, occupied_gates, lines) ==
    [ roi_scale          |-> roi,
      voxel_sizes        |-> voxel_sizes,
      grid_sizes         |-> GridSizes(roi, voxel_sizes),
      filter_ground      |-> filter_ground,
      ground_y2          |-> GroundY2,
      occupied_gates     |-> occupied_gates,
      left_filenames     |-> [i \in 1..Len(lines) |-> lines[i][1]],
      calib_filenames    |-> [i \in 1..Len(lines) |-> lines[i][Len(lines[i])]],
      disp_filenames     |-> DispFilenames(lines),
      stored_gt          |-> StoredGt(lines),
      gt_voxel_filenames |-> GtVoxelFilenames(lines),
      c_u                |-> None,
      c_v                |-> None,
      f_u                |-> None,
      f_v                |-> None,
      lidar_extrinsic    |-> None ]

\* The attributes before any constructor has run: there is no object.
NoObject ==
    [ roi_scale          |-> <<>>,
      voxel_sizes        |-> <<>>,
      grid_sizes         |-> <<>>,
      filter_ground      |-> FALSE,
      ground_y2          |-> 0,
      occupied_gates     |-> <<>>,
      left_filenames     |-> <<>>,
      calib_filenames    |-> <<>>,
      disp_filenames     |-> None,
      stored_gt          |-> FALSE,
      gt_voxel_filenames |-> None,
      c_u                |-> None,
      c_v                |-> None,
      f_u                |-> None,
      f_v                |-> None,
      lidar_extrinsic    |-> None ]

\* lines 238-249: TRUE when VoxelKITTIDataset.__init__ raises
InitRaises(roi, voxel_sizes, lines, training) ==
    \/ BaseInitRaises(roi, voxel_sizes)
    \/ LoadPathRaises(lines)
    \/ training /\ IsNone(DispFilenames(lines))

-----------------------------------------------------------------------------
(* VoxelKITTIDataset.load_calib *)

\* A calibration file is a sequence of lines <<key, numbers>>; a blank line
\* is <<>>.  Matrices are flat, row-major sequences.

Keys3x3 == {"R_00:", "R_rect_00:", "R_01:", "R_rect_03:"}
Keys3x4 == {"P_rect_00:", "P_rect_03:"}

\* lines 288-304: splits[0] of a blank line is an IndexError; reshape(3, 3)
\* and reshape(3, 4) raise unless 9 and 12 numbers follow the key
LineRaises(line) ==
    \/ Len(line) = 0
    \/ line[1] \in Keys3x3 /\ Len(line[2]) /= 9
    \/ line[1] \in Keys3x4 /\ Len(line[2]) /= 12

RECURSIVE LastValue(_, _, _)
\* lines 287-304: the value bound to a variable after the loop is that of the
\* last line carrying its key; None when no line does
LastValue(lines, key, i) ==
    IF i = 0 THEN None
    ELSE IF Len(lines[i]) > 0 /\ lines[i][1] = key THEN Some(lines[i][2])
    ELSE LastValue(lines, key, i - 1)

\* lines 279-304: the eight local variables after the loop
ParsedCalib(lines) ==
    [ R_02      |-> LastValue(lines, "R_00:", Len(lines)),
      T_02      |-> LastValue(lines, "T_00:", Len(lines)),
      P_rect_02 |-> LastValue(lines, "P_rect_00:", Len(lines)),
      R_rect_02 |-> LastValue(lines, "R_rect_00:", Len(lines)),
      R_03      |-> LastValue(lines, "R_01:", Len(lines)),
      T_03      |-> LastValue(lines, "T_01:", Len(lines)),
      P_rect_03 |-> LastValue(lines, "P_rect_03:", Len(lines)),
      R_rect_03 |-> LastValue(lines, "R_rect_03:", Len(lines)) ]

\* lines 307-315: np.concatenate raises on a None operand and on a
\* translation that does not have three entries
ComposeRaises(c) ==
    \/ IsNone(c.R_02) \/ IsNone(c.T_02)
    \/ IsNone(c.R_03) \/ IsNone(c.T_03)
    \/ IsNone(c.R_rect_02) \/ IsNone(c.R_rect_03)
    \/ Len(Val(c.T_02)) /= 3
    \/ Len(Val(c.T_03)) /= 3

\* lines 307-308: the 4x4 matrix [R | T ; 0 0 0 1], flat
Rt4(R, T) ==
    << R[1], R[2], R[3], T[1],
       R[4], R[5], R[6], T[2],
       R[7], R[8], R[9], T[3],
       0, 0, 0, 1 >>

\* lines 312-313: the 4x4 matrix [R_rect | 0 ; 0 0 0 1], flat
Rect4(R) == Rt4(R, <<0, 0, 0>>)

\* the @ of lines 317 and 319, on flat 4x4 matrices
MatMul4(A, B) ==
    [n \in 1..16 |->
        LET i == (n - 1) \div 4
            j == (n - 1) % 4
        IN  A[4*i + 1] * B[j + 1] + A[4*i + 2] * B[j + 5]
          + A[4*i + 3] * B[j + 9] + A[4*i + 4] * B[j + 13]]

\* lines 317-320: rotation (row-major, 9 numbers) then translation (3 numbers)
TWorldCam(R_rect, R, T) ==
    LET M == MatMul4(Rect4(R_rect), Rt4(R, T))
    IN  << M[1], M[2], M[3], M[5], M[6], M[7], M[9], M[10], M[11],
           M[4], M[8], M[12] >>

\* P_rect[i, j] of a flat 3x4 matrix, i and j counted from 0
P34(P, i, j) == P[4*i + j + 1]


-----------------------------------------------------------------------------
(* VoxelKITTIDataset.calc_cloud and VoxelDataset.project_image_to_velo *)

\* A disparity map is a sequence of pixels <<col, row, q>>.  q = 0 stands for
\* a disparity that is not positive; q > 0 stands for the positive disparity
\* d with baseline / (d + 1e-5) = q, so that line 340 gives depth = f_u * q.
\* The pixels and calibrations drawn below make every quotient of line 76
\* and 77 exact, so that the float division is the integer one.

\* lines 340-347: the (x, y, depth) rows kept by the mask disparity > 0
UvDepth(disparity, f_u) ==
    LET valid == SelectSeq(disparity, LAMBDA px : px[3] > 0)
    IN  [n \in 1..Len(valid) |->
            << valid[n][1], valid[n][2], f_u * valid[n][3] >>]

\* lines 75-82: pinhole back-projection of one (u, v, depth) row
ProjectImageToRect(p, c_u, f_u, c_v, f_v) ==
    << ((p[1] - c_u) * p[3]) \div f_u,
       ((p[2] - c_v) * p[3]) \div f_v,
       p[3] >>

\* Pose.inverse().transform of wrappers.py, which is not among the sources:
\* the pose holds a rotation R (row-major) and a translation t, and its
\* inverse maps p to R^T (p - t).
PoseInverseTransform(pose, p) ==
    LET d == << p[1] - pose[10], p[2] - pose[11], p[3] - pose[12] >>
    IN  << pose[1]*d[1] + pose[4]*d[2] + pose[7]*d[3],
           pose[2]*d[1] + pose[5]*d[2] + pose[8]*d[3],
           pose[3]*d[1] + pose[6]*d[2] + pose[9]*d[3] >>

\* lines 84-85 and 339-350: the cloud, from the values calc_cloud and
\* project_image_to_velo read from the object (f_u is read twice: for the
\* depth at line 340 and for x at line 76)
CalcCloud(disparity, f_u_depth, pose, c_u, f_u, c_v, f_v) ==
    LET pts == UvDepth(disparity, f_u_depth)
    IN  [n \in 1..Len(pts) |->
            PoseInverseTransform(pose,
                ProjectImageToRect(pts[n], c_u, f_u, c_v, f_v))]

-----------------------------------------------------------------------------
(* VoxelDataset.filter_cloud *)

\* line 88: cloud[..., :3] >= [min_x, min_y, min_z], all three (line 93)
MinMaskMut(roi, p) ==
    p[1] > roi[1] /\ p[2] > roi[3] /\ p[3] > roi[5]

MinMask(roi, p) ==
    p[1] >= roi[1] /\ p[2] >= roi[3] /\ p[3] >= roi[5]

\* lines 89-92: twice the upper bound applied to y
MaxY2Mut(roi, filter_ground, ground_y2) ==
    IF filter_ground THEN ground_y2 ELSE 2 * roi[4]

MaxY2(roi, filter_ground, ground_y2) ==
    IF filter_ground /\ 2 * roi[4] > ground_y2
    THEN ground_y2
    ELSE 2 * roi[4]

\* lines 89-92 and 94
MaxMask(roi, filter_ground, ground_y2, p) ==
    /\ p[1] <= roi[2]
    /\ 2 * p[2] <= MaxY2(roi, filter_ground, ground_y2)
    /\ p[3] <= roi[6]

\* lines 87-97: boolean-mask indexing keeps the selected rows, in order
FilterCloud(roi, filter_ground, ground_y2, cloud) ==
    SelectSeq(cloud, LAMBDA p : /\ MinMask(roi, p)
                                /\ MaxMask(roi, filter_ground, ground_y2, p))


-----------------------------------------------------------------------------
(* VoxelDataset.calc_voxel_grid *)

\* A dense grid is [shape |-> <<nx, ny, nz>>, data |-> the flat, row-major
\* array], as numpy's reshape and torch's view(-1) relate the two.  Flat
\* positions are counted from 0; data[f + 1] is the entry at position f.

NumCells(shape) == shape[1] * shape[2] * shape[3]

\* the (i, j, k) of flat position f in an array of the given shape
Unravel(shape, f) ==
    << f \div (shape[2] * shape[3]),
       (f \div shape[3]) % shape[2],
       f % shape[3] >>

\* the flat position of (i, j, k)
Ravel(shape, ijk) == (ijk[1] * shape[2] + ijk[2]) * shape[3] + ijk[3]

\* lines 102-103: a gate of None counts as 1
OccupiedGate(occupied_gates, level) ==
    IF IsNone(occupied_gates[level + 1]) THEN 1
    ELSE Val(occupied_gates[level + 1])

\* ref_points_generator of ds_dataset.py, which is not among the sources,
\* followed by view(-1, 3): the centre of voxel (i, j, k) is
\* origin + (index + 0.5) * voxel size, at flat position Ravel(shape, ijk).
\* The centre is returned doubled.
RefPoint2(roi, shape, vox_size, f) ==
    LET ijk == Unravel(shape, f)
    IN  << 2 * roi[1] + (2 * ijk[1] + 1) * vox_size,
           2 * roi[3] + (2 * ijk[2] + 1) * vox_size,
           2 * roi[5] + (2 * ijk[3] + 1) * vox_size >>

\* line 111: entry g of parent_grid[:, None, :, None, :, None]
\* .repeat(1, 2, 1, 2, 1, 2).view(-1), a tensor of shape (nx, 2, ny, 2, nz, 2)
ExpandedParentAt(parent_grid, g) ==
    LET ny == parent_grid.shape[2]
        nz == parent_grid.shape[3]
        k  == (g \div 2) % nz
        j  == (g \div (4 * nz)) % ny
        i  == g \div (8 * nz * ny)
    IN  parent_grid.data[Ravel(parent_grid.shape, <<i, j, k>>) + 1] /= 0

\* lines 110-114: the number of entries of search_mask
SearchMaskLenMut(parent_grid, num_ref) == num_ref

SearchMaskLen(parent_grid, num_ref) ==
    IF IsNone(parent_grid) THEN num_ref
    ELSE 8 * NumCells(Val(parent_grid).shape)

\* lines 110-114: search_mask at flat position g
SearchMaskAtMut(parent_grid, g) == TRUE

SearchMaskAt(parent_grid, g) ==
    IF IsNone(parent_grid) THEN TRUE
    ELSE ExpandedParentAt(Val(parent_grid), g)

\* lines 117-119: point p hits the voxel of (doubled) centre c2 when it lies
\* within vox_size / 2 of it on all three axes
VoxHit(p, c2, vox_size) ==
    /\ Abs(2 * p[1] - c2[1]) <= vox_size
    /\ Abs(2 * p[2] - c2[2]) <= vox_size
    /\ Abs(2 * p[3] - c2[3]) <= vox_size

\* the rows of the cloud that hit the voxel: one column of vox_hits
HitRows(cloud, c2, vox_size) ==
    {n \in 1..Len(cloud) : VoxHit(cloud[n], c2, vox_size)}

\* line 121: np.sum(vox_hits, axis=0) >= occupied_gate
ValidHitMut(hits, occupied_gate) == hits > occupied_gate

ValidHit(hits, occupied_gate) == hits >= occupied_gate

\* lines 102-123: TRUE when calc_voxel_grid raises before it returns: the
\* assertion of line 104, or the boolean index of line 118 whose length is
\* not the number of reference points
CalcVoxelGridRaises(obj, level, parent_grid) ==
    \/ OccupiedGate(obj.occupied_gates, level) <= 0
    \/ SearchMaskLen(parent_grid, NumCells(obj.grid_sizes[level + 1]))
           /= NumCells(obj.grid_sizes[level + 1])

\* lines 102-126: the occupancy grid returned for the level
CalcVoxelGrid(obj, filtered_cloud, level, parent_grid) ==
    LET shape == obj.grid_sizes[level + 1]
        vox   == obj.voxel_sizes[level + 1]
        gate  == OccupiedGate(obj.occupied_gates, level)
    IN  [ shape |-> shape,
          data  |-> [n \in 1..NumCells(shape) |->
                      IF /\ SearchMaskAt(parent_grid, n - 1)
                         /\ ValidHit(
                              Cardinality(HitRows(filtered_cloud,
                                  RefPoint2(obj.roi_scale, shape, vox, n - 1),
                                  vox)),
                              gate)
                      THEN 1 ELSE 0] ]


-----------------------------------------------------------------------------
(* VoxelDataset.calc_voxel_grid with get_flow=True (lines 127-136) *)

\* Flow components are integers counting hundredths; a rounded mean counts
\* tenths; rtol is carried as rtol10 = 10 * rtol (3 for the default 0.3).
\* On the flows drawn below (every mean under 2.3 in size) the decimal
\* arithmetic of the model and the binary arithmetic of numpy agree.

RECURSIVE FlowSum(_, _, _, _, _)
\* line 129, numerator: vox_hits.T @ filtered_cloud[..., 3:], one voxel and
\* one component (comp in 1..3), over the first n rows of the cloud
FlowSum(cloud, n, c2, vox_size, comp) ==
    IF n = 0 THEN 0
    ELSE FlowSum(cloud, n - 1, c2, vox_size, comp)
           + (IF VoxHit(cloud[n], c2, vox_size) THEN cloud[n][3 + comp] ELSE 0)

\* lines 129-130: sum / (hits + 1e-5), rounded to one decimal.  The 1e-5
\* pulls every quotient towards zero by less than any gap between two
\* candidates, so a quotient halfway between two tenths rounds to the one
\* nearer zero, and every other quotient to the nearest tenth.
MeanFlow10Mut(sum, hits) ==
    IF hits = 0 THEN 0 ELSE sum \div (10 * hits)

MeanFlow10(sum, hits) ==
    IF hits = 0 THEN 0
    ELSE Sign(sum) * ((2 * Abs(sum) + 10 * hits - 1) \div (20 * hits))

\* line 132: (mean_flow - rtol * sign(mean_flow) * vox_size) // vox_size
\* * vox_size, from a mean in tenths to a flow in whole units
Quantize(mean10, vox_size, rtol10) ==
    ((mean10 - rtol10 * Sign(mean10) * vox_size) \div (10 * vox_size))
        * vox_size

\* line 128: assert filtered_cloud.shape[-1] == 6
FlowAssertFails(filtered_cloud) ==
    \E n \in 1..Len(filtered_cloud) : Len(filtered_cloud[n]) /= 6

\* lines 129-136: the flow grid returned for the level, flat, one
\* (fx, fy, fz) per voxel
CalcVoxelGridFlow(obj, filtered_cloud, level, parent_grid, rtol10) ==
    LET shape == obj.grid_sizes[level + 1]
        vox   == obj.voxel_sizes[level + 1]
        occ   == CalcVoxelGrid(obj, filtered_cloud, level, parent_grid)
    IN  [ shape |-> shape,
          data  |-> [n \in 1..NumCells(shape) |->
                      LET c2   == RefPoint2(obj.roi_scale, shape, vox, n - 1)
                          hits == Cardinality(HitRows(filtered_cloud, c2, vox))
                      IN  [comp \in 1..3 |->
                            IF SearchMaskAt(parent_grid, n - 1)
                            THEN Quantize(
                                   MeanFlow10(
                                     FlowSum(filtered_cloud,
                                             Len(filtered_cloud), c2, vox,
                                             comp),
                                     hits),
                                   vox, rtol10) * occ.data[n]
                            ELSE 0]] ]

-----------------------------------------------------------------------------
(* The state of a worker inside VoxelKITTIDataset.__getitem__ *)

Workers == {1, 2}

\* the 'null' of lines 448 and 450, and a value that is not 'null'
Null == [null |-> TRUE, value |-> <<>>]
Value(v) == [null |-> FALSE, value |-> v]

\* the calibration attributes of the object (lines 19-23)
CalibAttrs(obj) ==
    [ c_u |-> obj.c_u, c_v |-> obj.c_v, f_u |-> obj.f_u, f_v |-> obj.f_v,
      lidar_extrinsic |-> obj.lidar_extrinsic ]

\* The local variables of one call.  calls counts the calls the worker has
\* begun; pre is the calibration the object held when load_calib was
\* entered (a history variable, not a variable of the code).  rtol10 and
\* all_sflow belong to a caller of calc_voxel_grid(..., get_flow=True).
\* loaded_gt is what load_gt returned at line 418 and cvg_calls the calls of
\* calc_voxel_grid made at line 429, each with its level, the parent_grid
\* passed, and the grid returned (None when the call raised): both are
\* history variables.
FreshLocals(calls) ==
    [ calls             |-> calls,
      pre               |-> CalibAttrs(NoObject),
      calib             |-> ParsedCalib(<<>>),
      T_world_cam_02    |-> None,
      T_world_cam_03    |-> None,
      disp_gt           |-> None,
      rd_f_u_depth      |-> None,
      rd_pose           |-> None,
      rd_c_u            |-> None,
      rd_f_u            |-> None,
      rd_c_v            |-> None,
      rd_f_v            |-> None,
      cloud_gt          |-> None,
      filtered_cloud_gt |-> None,
      level             |-> 0,
      parent_grid       |-> None,
      all_vox_grid_gt   |-> <<>>,
      loaded_gt         |-> None,
      cvg_calls         |-> <<>>,
      rtol10            |-> 0,
      all_sflow         |-> <<>>,
      ret               |-> None,
      exc               |-> "" ]

\* an exception leaves the call
Raise(t, what) ==
    /\ pc' = [pc EXCEPT ![t] = "raised"]
    /\ loc' = [loc EXCEPT ![t].exc = what]

Goto(t, label) == pc' = [pc EXCEPT ![t] = label]

-----------------------------------------------------------------------------
(* VoxelKITTIDataset.__init__ (lines 238-253, with VoxelDataset.__init__) *)

Construct(roi, voxel_sizes, filter_ground, occupied_gates, lines, training) ==
    /\ ctor = "unborn"
    /\ IF InitRaises(roi, voxel_sizes, lines, training)
       THEN /\ ctor' = "raised"
            /\ self' = self
       ELSE /\ ctor' = "ok"
            /\ self' = NewObject(roi, voxel_sizes, filter_ground,
                                 occupied_gates, lines)
    /\ UNCHANGED <<pc, loc>>

-----------------------------------------------------------------------------
(* VoxelKITTIDataset.load_calib, called at line 358 *)

\* lines 276-320: read the file, parse it, compose the two poses
LoadCalib_Parse(t, lines) ==
    /\ ctor = "ok"
    /\ pc[t] = "idle"
    /\ IF \/ \E i \in 1..Len(lines) : LineRaises(lines[i])
          \/ ComposeRaises(ParsedCalib(lines))
       THEN /\ pc' = [pc EXCEPT ![t] = "raised"]
            /\ loc' = [loc EXCEPT ![t].exc = "load_calib",
                                  ![t].calls = @ + 1,
                                  ![t].pre = CalibAttrs(self),
                                  ![t].calib = ParsedCalib(lines)]
       ELSE /\ Goto(t, "l322")
            /\ LET c == ParsedCalib(lines)
               IN  loc' = [loc EXCEPT
                       ![t].calls = @ + 1,
                       ![t].pre = CalibAttrs(self),
                       ![t].calib = c,
                       ![t].T_world_cam_02 =
                           Some(TWorldCam(Val(c.R_rect_02), Val(c.R_02),
                                          Val(c.T_02))),
                       ![t].T_world_cam_03 =
                           Some(TWorldCam(Val(c.R_rect_03), Val(c.R_03),
                                          Val(c.T_03)))]
    /\ UNCHANGED <<ctor, self>>

\* line 322: self.c_u = P_rect_02[0, 2]
LoadCalib_c_u(t) ==
    /\ pc[t] = "l322"
    /\ IF IsNone(loc[t].calib.P_rect_02)
       THEN Raise(t, "load_calib") /\ self' = self
       ELSE /\ self' = [self EXCEPT
                          !.c_u = Some(P34(Val(loc[t].calib.P_rect_02), 0, 2))]
            /\ Goto(t, "l323")
            /\ loc' = loc
    /\ UNCHANGED ctor

\* line 323: self.c_v = P_rect_02[1, 2]
LoadCalib_c_v(t) ==
    /\ pc[t] = "l323"
    /\ self' = [self EXCEPT
                  !.c_v = Some(P34(Val(loc[t].calib.P_rect_02), 1, 2))]
    /\ Goto(t, "l324")
    /\ UNCHANGED <<ctor, loc>>

\* line 324: self.f_u = P_rect_02[0, 0]
LoadCalib_f_u(t) ==
    /\ pc[t] = "l324"
    /\ self' = [self EXCEPT
                  !.f_u = Some(P34(Val(loc[t].calib.P_rect_02), 0, 0))]
    /\ Goto(t, "l325")
    /\ UNCHANGED <<ctor, loc>>

\* line 325: self.f_v = P_rect_02[1, 1]
LoadCalib_f_v(t) ==
    /\ pc[t] = "l325"
    /\ self' = [self EXCEPT
                  !.f_v = Some(P34(Val(loc[t].calib.P_rect_02), 1, 1))]
    /\ Goto(t, "l327")
    /\ UNCHANGED <<ctor, loc>>

\* lines 327-333: cam_02 and cam_03; P_rect_03[0, 0] of None is a TypeError
LoadCalib_cams(t) ==
    /\ pc[t] = "l327"
    /\ IF IsNone(loc[t].calib.P_rect_03)
       THEN Raise(t, "load_calib")
       ELSE Goto(t, "l335") /\ loc' = loc
    /\ UNCHANGED <<ctor, self>>

\* lines 335-337: self.lidar_extrinsic = Pose(T_world_cam_101), and return
LoadCalib_pose(t) ==
    /\ pc[t] = "l335"
    /\ self' = [self EXCEPT !.lidar_extrinsic = loc[t].T_world_cam_02]
    /\ Goto(t, "l361")
    /\ UNCHANGED <<ctor, loc>>


-----------------------------------------------------------------------------
(* VoxelKITTIDataset.__getitem__ after load_calib *)

\* lines 360-409: disp_gt is None unless the object has disparity files.
\* The image handling of lines 363-409 (pad or crop) is not modelled: the
\* disparity drawn here is the map as it reaches line 413.
GetItem_LoadDisp(t, disparity) ==
    /\ pc[t] = "l361"
    /\ IF IsNone(self.disp_filenames)
       THEN /\ disparity = <<>>
            /\ loc' = [loc EXCEPT ![t].disp_gt = None]
            /\ Goto(t, "l438")
       ELSE /\ loc' = [loc EXCEPT ![t].disp_gt = Some(disparity)]
            /\ Goto(t, "l340")
    /\ UNCHANGED <<ctor, self>>

\* line 340: depth_gt = self.f_u * self.baseline / (disparity + 1e-5)
CalcCloud_depth(t) ==
    /\ pc[t] = "l340"
    /\ loc' = [loc EXCEPT ![t].rd_f_u_depth = self.f_u]
    /\ Goto(t, "l85")
    /\ UNCHANGED <<ctor, self>>

\* line 85: self.lidar_extrinsic.inverse() is evaluated before the argument
Project_pose(t) ==
    /\ pc[t] = "l85"
    /\ loc' = [loc EXCEPT ![t].rd_pose = self.lidar_extrinsic]
    /\ Goto(t, "l76a")
    /\ UNCHANGED <<ctor, self>>

\* line 76: uv_depth[:, 0] - self.c_u
Project_c_u(t) ==
    /\ pc[t] = "l76a"
    /\ loc' = [loc EXCEPT ![t].rd_c_u = self.c_u]
    /\ Goto(t, "l76b")
    /\ UNCHANGED <<ctor, self>>

\* line 76: ... / self.f_u
Project_f_u(t) ==
    /\ pc[t] = "l76b"
    /\ loc' = [loc EXCEPT ![t].rd_f_u = self.f_u]
    /\ Goto(t, "l77a")
    /\ UNCHANGED <<ctor, self>>

\* line 77: uv_depth[:, 1] - self.c_v
Project_c_v(t) ==
    /\ pc[t] = "l77a"
    /\ loc' = [loc EXCEPT ![t].rd_c_v = self.c_v]
    /\ Goto(t, "l77b")
    /\ UNCHANGED <<ctor, self>>

\* line 77: ... / self.f_v, then lines 78-85 and 349-350: the cloud
Project_f_v(t) ==
    /\ pc[t] = "l77b"
    /\ loc' = [loc EXCEPT
                 ![t].rd_f_v = self.f_v,
                 ![t].cloud_gt =
                     Some(CalcCloud(Val(loc[t].disp_gt),
                                    Val(loc[t].rd_f_u_depth),
                                    Val(loc[t].rd_pose),
                                    Val(loc[t].rd_c_u), Val(loc[t].rd_f_u),
                                    Val(loc[t].rd_c_v), Val(self.f_v)))]
    /\ Goto(t, "l415")
    /\ UNCHANGED <<ctor, self>>

\* lines 415-417 and 426: filtered_cloud_gt = self.filter_cloud(cloud_gt)
GetItem_FilterCloud(t) ==
    /\ pc[t] = "l415"
    /\ loc' = [loc EXCEPT
                 ![t].filtered_cloud_gt =
                     Some(FilterCloud(self.roi_scale, self.filter_ground,
                                      self.ground_y2, Val(loc[t].cloud_gt)))]
    /\ Goto(t, IF self.stored_gt THEN "l418" ELSE "l428")
    /\ UNCHANGED <<ctor, self>>

\* line 418: all_vox_grid_gt = self.load_gt(...), whatever the file holds
GetItem_LoadGt(t, stored) ==
    /\ pc[t] = "l418"
    /\ loc' = [loc EXCEPT ![t].all_vox_grid_gt = stored,
                           ![t].loaded_gt = Some(stored)]
    /\ Goto(t, "l438")
    /\ UNCHANGED <<ctor, self>>

\* lines 102-118: the exception calc_voxel_grid raises, when it raises: the
\* assertion of line 104 comes before the boolean index of line 118
CalcVoxelGridException(obj, level, parent_grid) ==
    IF OccupiedGate(obj.occupied_gates, level) <= 0
    THEN "AssertionError"
    ELSE "IndexError"

\* lines 435-436: what the handler raises for the exception e it caught
BuildErrorMut(e) == e

BuildError(e) == "Error in calculating voxel grids from point cloud"

\* line 433: parent_grid = vox_grid_gt
NextParentMut(vox_grid_gt) == None

NextParent(vox_grid_gt) == Some(vox_grid_gt)

\* lines 428-436: one iteration of the loop over the levels.  Any exception
\* of calc_voxel_grid becomes the RuntimeError of line 436.
GetItem_Level(t) ==
    /\ pc[t] = "l428"
    /\ LET level == loc[t].level
           call  == [level |-> level, parent_grid |-> loc[t].parent_grid,
                     out |-> None]
       IN  IF CalcVoxelGridRaises(self, level, loc[t].parent_grid)
           THEN /\ pc' = [pc EXCEPT ![t] = "raised"]
                /\ loc' = [loc EXCEPT
                             ![t].exc = BuildError(
                                 CalcVoxelGridException(self, level,
                                                        loc[t].parent_grid)),
                             ![t].cvg_calls = Append(@, call)]
           ELSE LET vox_grid_gt ==
                        CalcVoxelGrid(self, Val(loc[t].filtered_cloud_gt),
                                      level, loc[t].parent_grid)
                IN  /\ loc' = [loc EXCEPT
                                 ![t].parent_grid = NextParent(vox_grid_gt),
                                 ![t].all_vox_grid_gt = Append(@, vox_grid_gt),
                                 ![t].cvg_calls =
                                     Append(@, [call EXCEPT
                                                  !.out = Some(vox_grid_gt)]),
                                 ![t].level = level + 1]
                    /\ Goto(t, IF level + 1 < Len(self.grid_sizes)
                               THEN "l428" ELSE "l438")
    /\ UNCHANGED <<ctor, self>>

\* line 448: all_vox_grid_gt if len(all_vox_grid_gt) >= 0 else 'null'
VoxelGridField(all_vox_grid_gt) ==
    IF Len(all_vox_grid_gt) >= 0 THEN Value(all_vox_grid_gt) ELSE Null

\* lines 449-450: the bytes of the cloud if it is not None, else 'null'
PointCloudField(filtered_cloud_gt) ==
    IF IsNone(filtered_cloud_gt) THEN Null ELSE Value(Val(filtered_cloud_gt))

\* lines 438-452: the returned record (the image entries are not modelled)
GetItem_Return(t) ==
    /\ pc[t] = "l438"
    /\ loc' = [loc EXCEPT ![t].ret = Some(
                 [ T_world_cam_101 |-> loc[t].T_world_cam_02,
                   T_world_cam_103 |-> loc[t].T_world_cam_03,
                   voxel_grid      |-> VoxelGridField(loc[t].all_vox_grid_gt),
                   point_cloud     |-> PointCloudField(loc[t].filtered_cloud_gt),
                   left_filename   |-> self.left_filenames[1] ])]
    /\ Goto(t, "done")
    /\ UNCHANGED <<ctor, self>>


-----------------------------------------------------------------------------
(* The inputs the model draws *)

\* the longest disparity map (in valid or invalid pixels) a sample holds
MaxPix == 2

SeqsUpTo(S, n) == UNION {[1..m -> S] : m \in 0..n}

\* regions of interest: one every schedule below divides or not on its own,
\* one whose z range (15) no voxel size divides
Rois == { <<0, 16, 0, 16, 2, 18>>, <<0, 16, 0, 16, 2, 17>> }

\* voxel sizes, coarse to fine: halving; not halving at the last level;
\* not halving at the second and at the last; not dividing the range; three
\* sizes only
VoxelSchedules ==
    { <<16, 8, 4, 2>>, <<16, 8, 4, 4>>, <<8, 8, 4, 4>>, <<16, 8, 3, 2>>,
      <<16, 8, 4>> }

\* occupied_gates: constant, decreasing as the default (20, 20, 10, 5) of
\* line 239 does, increasing, with a None, and with a gate of 0
GateSchedules ==
    { << Some(1), Some(1), Some(1), Some(1) >>,
      << Some(2), Some(2), Some(1), Some(1) >>,
      << Some(1), Some(1), Some(2), Some(2) >>,
      << None,    Some(2), Some(1), Some(1) >>,
      << Some(1), Some(0), Some(1), Some(1) >> }

\* list files of one sample: without disparity, with disparity, with stored
\* ground truth; and the empty file
ListFiles ==
    { << <<"left", "right", "calib">> >>,
      << <<"left", "right", "disp", "calib">> >>,
      << <<"left", "right", "disp", "gt", "calib">> >>,
      << >> }

I3 == <<1, 0, 0, 0, 1, 0, 0, 0, 1>>

\* a complete calibration file: f_u = f_v = 1, c_u = c_v = 0, identity pose
CalibA ==
    << <<"calib_time:", <<>> >>,
       <<"R_00:", I3>>,
       <<"T_00:", <<0, 0, 0>> >>,
       <<"P_rect_00:", <<1, 0, 0, 0,  0, 1, 0, 0,  0, 0, 1, 0>> >>,
       <<"R_rect_00:", I3>>,
       <<"R_01:", I3>>,
       <<"T_01:", <<-1, 0, 0>> >>,
       <<"P_rect_03:", <<1, 0, 0, -1,  0, 1, 0, 0,  0, 0, 1, 0>> >>,
       <<"R_rect_03:", I3>> >>

\* another: f_u = f_v = 2, c_u = c_v = 2, a quarter turn about z and a
\* translation
CalibB ==
    << <<"R_00:", I3>>,
       <<"T_00:", <<4, 0, 0>> >>,
       <<"P_rect_00:", <<2, 0, 2, 0,  0, 2, 2, 0,  0, 0, 1, 0>> >>,
       <<"R_rect_00:", <<0, -1, 0, 1, 0, 0, 0, 0, 1>> >>,
       <<"R_01:", I3>>,
       <<"T_01:", <<3, 0, 0>> >>,
       <<"P_rect_03:", <<2, 0, 2, -2,  0, 2, 2, 0,  0, 0, 1, 0>> >>,
       <<"R_rect_03:", <<0, -1, 0, 1, 0, 0, 0, 0, 1>> >>,
       <<"S_rect_03:", <<1242, 375>> >> >>

RequiredKeys ==
    { "R_00:", "T_00:", "P_rect_00:", "R_rect_00:",
      "R_01:", "T_01:", "P_rect_03:", "R_rect_03:" }

\* the file without the lines of one key
Without(lines, key) == SelectSeq(lines, LAMBDA line : line[1] /= key)

\* the pixels of the samples read under CalibA: they project to (3, 3, 3),
\* (8, 8, 8), (4, 0, 4) and (0, 0, 1); the last has no positive disparity
PixelsA == { <<1, 1, 3>>, <<1, 1, 8>>, <<1, 0, 4>>, <<0, 0, 1>>, <<1, 1, 0>> }

\* what a stored ground-truth file may hold
StoredGts ==
    { <<>>,
      << [shape |-> <<1, 1, 1>>, data |-> <<1>>],
         [shape |-> <<1, 1, 1>>, data |-> <<0>>] >> }

-----------------------------------------------------------------------------
(* Spec: one object, constructed from any configuration, serving one         *)
(* __getitem__ call on one worker.                                           *)

Init ==
    /\ ctor = "unborn"
    /\ self = NoObject
    /\ pc = [t \in Workers |-> "idle"]
    /\ loc = [t \in Workers |-> FreshLocals(0)]

ConstructAny ==
    \E roi \in Rois, voxel_sizes \in VoxelSchedules, filter_ground \in BOOLEAN,
       occupied_gates \in GateSchedules, lines \in ListFiles,
       training \in BOOLEAN :
        Construct(roi, voxel_sizes, filter_ground, occupied_gates, lines,
                  training)

LoadCalibSteps(t) ==
    \/ LoadCalib_c_u(t)
    \/ LoadCalib_c_v(t)
    \/ LoadCalib_f_u(t)
    \/ LoadCalib_f_v(t)
    \/ LoadCalib_cams(t)
    \/ LoadCalib_pose(t)

CalcCloudSteps(t) ==
    \/ CalcCloud_depth(t)
    \/ Project_pose(t)
    \/ Project_c_u(t)
    \/ Project_f_u(t)
    \/ Project_c_v(t)
    \/ Project_f_v(t)

Next ==
    \/ ConstructAny
    \/ \E lines \in {CalibA, Without(CalibA, "P_rect_03:")} :
           LoadCalib_Parse(1, lines)
    \/ LoadCalibSteps(1)
    \/ \E disparity \in SeqsUpTo(PixelsA, MaxPix) : GetItem_LoadDisp(1, disparity)
    \/ CalcCloudSteps(1)
    \/ GetItem_FilterCloud(1)
    \/ \E stored \in StoredGts : GetItem_LoadGt(1, stored)
    \/ GetItem_Level(1)
    \/ GetItem_Return(1)

Spec == Init /\ [][Next]_vars


-----------------------------------------------------------------------------
(* Claims about the four-level build (checked under Spec) *)

\* the grids a worker has computed so far with calc_voxel_grid
Built(t) ==
    IF ctor = "ok" /\ ~self.stored_gt THEN loc[t].all_vox_grid_gt ELSE <<>>

\* the entry of a dense grid at (i, j, k)
At(grid, ijk) == grid.data[Ravel(grid.shape, ijk) + 1]

ParentOf(ijk) == << ijk[1] \div 2, ijk[2] \div 2, ijk[3] \div 2 >>

Cells(grid) == 0..(NumCells(grid.shape) - 1)

\* the number of points of the cloud within half a voxel size of the centre
\* origin + (index + 0.5) * size of voxel ijk, on all three axes
PointsWithin(cloud, roi, size, ijk) ==
    Cardinality({n \in 1..Len(cloud) :
        /\ Abs(2 * (cloud[n][1] - roi[1]) - (2 * ijk[1] + 1) * size) <= size
        /\ Abs(2 * (cloud[n][2] - roi[3]) - (2 * ijk[2] + 1) * size) <= size
        /\ Abs(2 * (cloud[n][3] - roi[5]) - (2 * ijk[3] + 1) * size) <= size})

\* C1: monotonic pruning.  In every build, for every level L in 1..3 and
\* every voxel (x, y, z) of the level-L grid, if the voxel is occupied then
\* voxel (x div 2, y div 2, z div 2) of the level L-1 grid is occupied.
C1_MonotonicPruning ==
    \A t \in Workers :
        \A L \in 2..Len(Built(t)) :
            \A f \in Cells(Built(t)[L]) :
                Built(t)[L].data[f + 1] = 1 =>
                    At(Built(t)[L - 1],
                       ParentOf(Unravel(Built(t)[L].shape, f))) = 1

\* C1 witness: a finished build whose level-1 grid has exactly one occupied
\* cell among its eight, and whose level-2 and level-3 grids are occupied
\* somewhere (so only among that cell's descendants).
C1_Witness ==
    \E t \in Workers :
        /\ pc[t] = "done"
        /\ Len(Built(t)) = 4
        /\ Cardinality({f \in Cells(Built(t)[2]) :
                           Built(t)[2].data[f + 1] = 1}) = 1
        /\ \E f \in Cells(Built(t)[3]) : Built(t)[3].data[f + 1] = 1
        /\ \E f \in Cells(Built(t)[4]) : Built(t)[4].data[f + 1] = 1


\* the gate of a level as the claims read it: occupied_gates[level], a
\* missing one counting as 1
GateOf(level) ==
    IF self.occupied_gates[level + 1] = None THEN 1
    ELSE self.occupied_gates[level + 1][1]

\* the points of the filtered cloud within half a voxel of the centre of the
\* voxel at flat position f of the L-th grid built (L counted from 1)
Count(t, L, f) ==
    PointsWithin(loc[t].filtered_cloud_gt[1], self.roi_scale,
                 self.voxel_sizes[L], Unravel(Built(t)[L].shape, f))

\* C2 as claimed: at every level, for every voxel of the grid (search
\* candidate or not), the value is 1 if and only if the number of filtered
\* cloud points within half a voxel size of its centre is at least the
\* level's gate.
C2_Claimed ==
    \A t \in Workers :
        \A L \in 1..Len(Built(t)) :
            \A f \in Cells(Built(t)[L]) :
                Built(t)[L].data[f + 1] = 1 <=> Count(t, L, f) >= GateOf(L - 1)

\* C2 as amended: at every level, for every voxel of the grid, the value is 1
\* if and only if the count reaches the level's gate and, above level 0, the
\* parent voxel (x div 2, y div 2, z div 2) is occupied in the previous grid;
\* every other voxel holds 0.
C2_OccupiedIffGateAndParent ==
    \A t \in Workers :
        \A L \in 1..Len(Built(t)) :
            \A f \in Cells(Built(t)[L]) :
                /\ Built(t)[L].data[f + 1] \in {0, 1}
                /\ Built(t)[L].data[f + 1] = 1 <=>
                     /\ Count(t, L, f) >= GateOf(L - 1)
                     /\ L > 1 =>
                          At(Built(t)[L - 1],
                             ParentOf(Unravel(Built(t)[L].shape, f))) = 1

\* C2 witness: a finished build under gates that decrease from coarse to
\* fine, in which one voxel is occupied with exactly its gate's count and
\* another reaches its gate but is left 0 because its parent is unoccupied.
C2_Witness ==
    \E t \in Workers :
        /\ pc[t] = "done"
        /\ Len(Built(t)) = 4
        /\ GateOf(0) > GateOf(3)
        /\ \E L \in 1..4 : \E f \in Cells(Built(t)[L]) :
               /\ Built(t)[L].data[f + 1] = 1
               /\ Count(t, L, f) = GateOf(L - 1)
        /\ \E L \in 2..4 : \E f \in Cells(Built(t)[L]) :
               /\ Built(t)[L].data[f + 1] = 0
               /\ Count(t, L, f) >= GateOf(L - 1)

-----------------------------------------------------------------------------
(* Claims about construction and the returned record (checked under Spec) *)

\* C3: a region of interest whose x, y or z range is not an exact multiple of
\* one of the four voxel sizes is rejected; every constructed object holds
\* exactly four grid sizes, and grid_sizes[L] times voxel_sizes[L] is the
\* range on each axis.
C3_GridSizes ==
    ctor = "ok" =>
        /\ Len(self.voxel_sizes) = 4
        /\ Len(self.grid_sizes) = 4
        /\ \A L \in 1..4 :
            /\ Len(self.grid_sizes[L]) = 3
            /\ self.grid_sizes[L][1] * self.voxel_sizes[L]
                   = self.roi_scale[2] - self.roi_scale[1]
            /\ self.grid_sizes[L][2] * self.voxel_sizes[L]
                   = self.roi_scale[4] - self.roi_scale[3]
            /\ self.grid_sizes[L][3] * self.voxel_sizes[L]
                   = self.roi_scale[6] - self.roi_scale[5]

\* C3 witness: an object constructed over the 16 x 16 x 16 region with sizes
\* that do not halve at the last level.
C3_Witness ==
    /\ ctor = "ok"
    /\ self.voxel_sizes = <<16, 8, 4, 4>>
    /\ self.grid_sizes = << <<1, 1, 1>>, <<2, 2, 2>>, <<4, 4, 4>>, <<4, 4, 4>> >>

\* C4 as claimed: no dataset object holding a gate <= 0 ever exists.
C4_Claimed ==
    ctor = "ok" =>
        \A L \in 1..Len(self.occupied_gates) :
            self.occupied_gates[L] = None \/ self.occupied_gates[L][1] > 0

\* C5 as claimed: in a returned record of a sample without disparity, both
\* 'voxel_grid' and 'point_cloud' are the 'null' marker.
C5_Claimed ==
    \A t \in Workers :
        (loc[t].ret /= None /\ loc[t].disp_gt = None) =>
            /\ loc[t].ret[1].voxel_grid.null
            /\ loc[t].ret[1].point_cloud.null


-----------------------------------------------------------------------------
(* SpecCalib: load_calib called again and again on one object, on one       *)
(* worker, with complete, incomplete and malformed calibration files.       *)

\* the number of load_calib calls a worker makes
MaxCalls == 2

\* a constructed object with disparity files and no stored ground truth
ServingObject ==
    NewObject(<<0, 16, 0, 16, 2, 18>>, <<16, 8, 4, 2>>, FALSE,
              << Some(1), Some(1), Some(1), Some(1) >>,
              << <<"left", "right", "disp", "calib">> >>)

CalibFiles ==
    {CalibA, CalibB}
        \cup {Without(CalibA, key) : key \in RequiredKeys}
        \cup {Without(CalibB, key) : key \in RequiredKeys}
        \cup { Append(CalibA, <<>>),
               Append(CalibB, <<"T_00:", <<1, 2>> >>),
               Append(CalibB, <<"R_00:", <<1, 0, 0, 1>> >>) }

InitCalib ==
    /\ ctor = "ok"
    /\ self = ServingObject
    /\ pc = [t \in Workers |-> "idle"]
    /\ loc = [t \in Workers |-> FreshLocals(0)]

\* line 358, once more: the caller's next call, after load_calib has
\* returned or raised
CallAgain(t) ==
    /\ pc[t] \in {"l361", "raised"}
    /\ loc[t].calls < MaxCalls
    /\ pc' = [pc EXCEPT ![t] = "idle"]
    /\ loc' = [loc EXCEPT ![t] = FreshLocals(loc[t].calls)]
    /\ UNCHANGED <<ctor, self>>

NextCalib ==
    \/ \E lines \in CalibFiles : LoadCalib_Parse(1, lines)
    \/ LoadCalibSteps(1)
    \/ CallAgain(1)

SpecCalib == InitCalib /\ [][NextCalib]_vars

\* C7 as claimed: whenever load_calib has raised, every calibration attribute
\* of the object (c_u, c_v, f_u, f_v, lidar_extrinsic) is what it was when
\* the call began; and a call that returned has updated all of them.
C7_Claimed ==
    \A t \in Workers :
        /\ (pc[t] = "raised" /\ loc[t].exc = "load_calib") =>
               CalibAttrs(self) = loc[t].pre
        /\ pc[t] = "l361" =>
               /\ self.c_u = Some(P34(loc[t].calib.P_rect_02[1], 0, 2))
               /\ self.c_v = Some(P34(loc[t].calib.P_rect_02[1], 1, 2))
               /\ self.f_u = Some(P34(loc[t].calib.P_rect_02[1], 0, 0))
               /\ self.f_v = Some(P34(loc[t].calib.P_rect_02[1], 1, 1))
               /\ self.lidar_extrinsic = loc[t].T_world_cam_02

-----------------------------------------------------------------------------
(* SpecConc: two workers inside __getitem__ of one object, their steps       *)
(* interleaved, each with its own sample, up to the projected cloud.         *)

\* disparity maps of the samples; every product (u - c) * depth is even, so
\* the quotients of lines 76-77 are exact under either calibration
ConcDisparities ==
    { << <<2, 2, 4>> >>, << <<4, 2, 2>>, <<0, 4, 2>> >> }

NextConc ==
    \E t \in Workers :
        \/ \E lines \in {CalibA, CalibB} : LoadCalib_Parse(t, lines)
        \/ LoadCalibSteps(t)
        \/ \E disparity \in ConcDisparities : GetItem_LoadDisp(t, disparity)
        \/ CalcCloudSteps(t)

SpecConc == InitCalib /\ [][NextConc]_vars

\* the cloud of a sample projected with the intrinsics and pose parsed from
\* that sample's own calibration file
OwnCloud(t) ==
    LET P == loc[t].calib.P_rect_02[1]
    IN  CalcCloud(loc[t].disp_gt[1], P34(P, 0, 0), loc[t].T_world_cam_02[1],
                  P34(P, 0, 2), P34(P, 0, 0), P34(P, 1, 2), P34(P, 1, 1))

\* C6 as claimed: under every interleaving, the cloud a worker computes for
\* its sample is the one projected with that sample's own c_u, c_v, f_u, f_v
\* and pose.
C6_Claimed ==
    \A t \in Workers :
        loc[t].cloud_gt /= None => loc[t].cloud_gt[1] = OwnCloud(t)


-----------------------------------------------------------------------------
(* SpecFilter: filter_cloud applied to any cloud, with ground filtering on   *)
(* or off and the ground below, at and above max_y.                          *)

\* the longest cloud handed to filter_cloud
MaxCloud == 2

\* xyz points around the region [0, 16] x [0, 16] x [2, 18]: its two extreme
\* corners, points inside with y below and above the ground heights, and
\* points outside by one on one axis
Points3 ==
    { <<0, 0, 2>>, <<16, 16, 18>>, <<3, 1, 3>>, <<3, 2, 3>>, <<3, 18, 3>>,
      <<-1, 1, 3>>, <<3, -1, 3>>, <<3, 1, 1>>, <<17, 1, 3>>, <<3, 1, 19>> }

\* xyz + flow points
Points6 ==
    { <<0, 0, 2, 50, 0, 0>>, <<3, 1, 3, -26, 34, 0>>, <<3, 17, 3, 0, 0, 5>>,
      <<3, 1, 19, 50, 0, 0>> }

\* twice the ground heights: 1.5, 16 (= max_y) and 20
GroundY2s == {3, 32, 40}

InitFilter ==
    /\ ctor = "ok"
    /\ \E filter_ground \in BOOLEAN, ground_y2 \in GroundY2s :
           self = [ServingObject EXCEPT !.filter_ground = filter_ground,
                                        !.ground_y2 = ground_y2]
    /\ pc = [t \in Workers |-> IF t = 1 THEN "l415" ELSE "idle"]
    /\ \E cloud \in SeqsUpTo(Points3, MaxCloud) \cup SeqsUpTo(Points6, MaxCloud) :
           loc = [t \in Workers |->
                    IF t = 1
                    THEN [FreshLocals(1) EXCEPT !.cloud_gt = Some(cloud)]
                    ELSE FreshLocals(0)]

NextFilter == GetItem_FilterCloud(1)

SpecFilter == InitFilter /\ [][NextFilter]_vars

\* the cloud handed to filter_cloud and, once it has returned, its result
FilterIn == loc[1].cloud_gt[1]
FilterOut == loc[1].filtered_cloud_gt[1]
Filtered == loc[1].filtered_cloud_gt /= None

\* twice the upper bound on y the configuration yields
YUpper2 ==
    IF self.filter_ground
    THEN Min2(2 * self.roi_scale[4], self.ground_y2)
    ELSE 2 * self.roi_scale[4]

\* a point within the closed box, its y bounded above by half of yupper2
InBox(p, yupper2) ==
    /\ self.roi_scale[1] <= p[1] /\ p[1] <= self.roi_scale[2]
    /\ self.roi_scale[3] <= p[2] /\ 2 * p[2] <= yupper2
    /\ self.roi_scale[5] <= p[3] /\ p[3] <= self.roi_scale[6]

\* out is seq with the rows outside `kept` deleted, order and values kept
IsSelection(out, seq, kept) ==
    /\ Len(out) = Cardinality(kept)
    /\ \A n \in kept : out[Cardinality({m \in kept : m <= n})] = seq[n]

\* C8: filter_cloud keeps a point if and only if each of its coordinates lies
\* in the closed interval of its axis (the y upper bound as configured); the
\* retained points keep their relative order and their values.
C8_FilterInclusive ==
    Filtered =>
        IsSelection(FilterOut, FilterIn,
                    {n \in 1..Len(FilterIn) : InBox(FilterIn[n], YUpper2)})

\* C8 witness: a cloud of a point on the corner (min_x, min_y, min_z) of the
\* box followed or preceded by a point outside it by one: the first is kept.
C8_Witness ==
    /\ Filtered
    /\ Len(FilterIn) = 2
    /\ \E n \in 1..2 : /\ FilterIn[n][1] = self.roi_scale[1]
                        /\ FilterIn[n][2] = self.roi_scale[3]
                        /\ FilterIn[n][3] = self.roi_scale[5]
                        /\ FilterOut = << FilterIn[n] >>
    /\ \E n \in 1..2 : FilterIn[n][1] = self.roi_scale[1] - 1

\* the rows a filter without ground filtering retains
PlainKept == {n \in 1..Len(FilterIn) : InBox(FilterIn[n], 2 * self.roi_scale[4])}

\* C9: with ground filtering enabled, whatever the ground height, every row
\* retained is a row the filter retains with ground filtering disabled, and
\* the rows retained are those of that result with y <= min(max_y, ground_y).
C9_GroundNeverWidens ==
    (Filtered /\ self.filter_ground) =>
        \E kept \in SUBSET PlainKept :
            /\ IsSelection(FilterOut, FilterIn, kept)
            /\ kept = {n \in PlainKept :
                         2 * FilterIn[n][2]
                             <= Min2(2 * self.roi_scale[4], self.ground_y2)}

\* C9 witness: ground filtering with the ground above max_y, on a cloud with
\* a point between max_y and the ground: the point is not retained.
C9_Witness ==
    /\ Filtered
    /\ self.filter_ground
    /\ self.ground_y2 > 2 * self.roi_scale[4]
    /\ \E n \in 1..Len(FilterIn) :
           /\ FilterIn[n][2] > self.roi_scale[4]
           /\ 2 * FilterIn[n][2] <= self.ground_y2
           /\ \A m \in 1..Len(FilterOut) : FilterOut[m] /= FilterIn[n]
    /\ Len(FilterOut) = 1


-----------------------------------------------------------------------------
(* SpecFlow: calc_voxel_grid(cloud, level, parent_grid, get_flow=True,      *)
(* rtol=...) called for level 0 and then, with the grid it returned as       *)
(* parent, for level 1, over the region [0, 2]^3 with voxel sizes 2 and 1.   *)

\* the longest cloud handed to calc_voxel_grid with get_flow=True
MaxFlowPts == 2

\* the levels a caller asks the flow of
FlowLevels == 2

FlowObject ==
    NewObject(<<0, 2, 0, 2, 0, 2>>, <<2, 1, 1, 1>>, FALSE,
              << Some(1), Some(1), Some(1), Some(1) >>,
              << <<"left", "right", "disp", "calib">> >>)

\* positions: a corner of the region, inside one level-1 voxel only, and the
\* centre of the region, on the boundary of all eight level-1 voxels
FlowPositions == { <<0, 0, 0>>, <<1, 1, 1>> }

\* flows, in hundredths: the (0.5, 0, 0) of the specification and others
\* whose means fall on, next to and halfway between tenths
FlowVectors ==
    { <<50, 0, 0>>, <<26, -26, 0>>, <<34, -34, 35>>, <<130, -70, 5>>,
      <<-45, 30, 25>> }

FlowPoints ==
    { p \o v : p \in FlowPositions, v \in FlowVectors }

\* gates of the two levels used: both 1; 2 then 1; 1 then 2
FlowGates ==
    { << Some(1), Some(1), Some(1), Some(1) >>,
      << Some(2), Some(1), Some(1), Some(1) >>,
      << Some(1), Some(2), Some(1), Some(1) >> }

InitFlow ==
    /\ ctor = "ok"
    /\ \E occupied_gates \in FlowGates :
           self = [FlowObject EXCEPT !.occupied_gates = occupied_gates]
    /\ pc = [t \in Workers |-> IF t = 1 THEN "flow" ELSE "idle"]
    /\ \E cloud \in (SeqsUpTo(FlowPoints, MaxFlowPts) \ {<<>>})
                        \cup { << <<1, 1, 1>> >> },
          rtol10 \in {3, 5} :
           loc = [t \in Workers |->
                    IF t = 1
                    THEN [FreshLocals(1) EXCEPT
                            !.filtered_cloud_gt = Some(cloud),
                            !.rtol10 = rtol10]
                    ELSE FreshLocals(0)]

\* lines 99-136 with get_flow=True: one call, for the caller's next level
CalcVoxelGrid_GetFlow(t) ==
    /\ pc[t] = "flow"
    /\ LET level == loc[t].level
           cloud == Val(loc[t].filtered_cloud_gt)
       IN  IF CalcVoxelGridRaises(self, level, loc[t].parent_grid)
           THEN Raise(t, "calc_voxel_grid")
           ELSE IF FlowAssertFails(cloud)
           THEN Raise(t, "AssertionError")
           ELSE LET occ == CalcVoxelGrid(self, cloud, level,
                                         loc[t].parent_grid)
                    sflow == CalcVoxelGridFlow(self, cloud, level,
                                               loc[t].parent_grid,
                                               loc[t].rtol10)
                IN  /\ loc' = [loc EXCEPT
                                 ![t].parent_grid = Some(occ),
                                 ![t].all_vox_grid_gt = Append(@, occ),
                                 ![t].all_sflow = Append(@, sflow),
                                 ![t].level = level + 1]
                    /\ Goto(t, IF level + 1 < FlowLevels
                               THEN "flow" ELSE "done")
    /\ UNCHANGED <<ctor, self>>

NextFlow == CalcVoxelGrid_GetFlow(1)

SpecFlow == InitFlow /\ [][NextFlow]_vars

\* the rows of the cloud within half a voxel of the centre of the voxel at
\* flat position f of level L (counted from 1)
FlowRows(L, f) ==
    LET cloud == loc[1].filtered_cloud_gt[1]
        size  == self.voxel_sizes[L]
        ijk   == Unravel(self.grid_sizes[L], f)
    IN  {n \in 1..Len(cloud) :
            \A a \in 1..3 :
                Abs(2 * (cloud[n][a] - self.roi_scale[2 * a - 1])
                      - (2 * ijk[a] + 1) * size) <= size}

RECURSIVE SumOf(_, _)
\* the sum of component comp (4..6) of the rows in a set
SumOf(rows, comp) ==
    IF rows = {} THEN 0
    ELSE LET n == CHOOSE n \in rows : TRUE
         IN  loc[1].filtered_cloud_gt[1][n][comp] + SumOf(rows \ {n}, comp)

\* q (whole units) is floor((m - rtol * sign(m) * v) / v) * v for
\* m = num / den hundredths, den > 0, v = size, rtol = rtol10 / 10
IsBiasedFloor(q, num, den, size, rtol10) ==
    LET biased == num - 10 * rtol10 * Sign(num) * size * den
    IN  /\ q % size = 0
        /\ 100 * den * q <= biased
        /\ biased < 100 * den * (q + size)

\* r10 (tenths) is the mean sum / hits (hundredths) rounded to one decimal,
\* a mean halfway between two tenths going to the one nearer zero
IsRoundedMean(r10, sum, hits) ==
    /\ Sign(r10) \in {0, Sign(sum)}
    /\ 2 * Abs(sum) - 10 * hits <= 20 * hits * Abs(r10)
    /\ 20 * hits * Abs(r10) < 2 * Abs(sum) + 10 * hits

\* the occupied voxels of the flow grids computed so far: <<L, f>>
FlowOccupied ==
    {Lf \in UNION {{<<L, f>> : f \in Cells(loc[1].all_sflow[L])} :
                      L \in 1..Len(loc[1].all_sflow)} :
        loc[1].all_vox_grid_gt[Lf[1]].data[Lf[2] + 1] = 1}

\* C10 as claimed: for every occupied voxel and each flow component, the
\* flow is floor((m - rtol * sign(m) * v) / v) * v with m the arithmetic mean
\* of the component over the points hitting the voxel, nothing else being
\* applied to m.
C10_Claimed ==
    \A Lf \in FlowOccupied : \A comp \in 1..3 :
        IsBiasedFloor(loc[1].all_sflow[Lf[1]].data[Lf[2] + 1][comp],
                      SumOf(FlowRows(Lf[1], Lf[2]), 3 + comp),
                      Cardinality(FlowRows(Lf[1], Lf[2])),
                      self.voxel_sizes[Lf[1]], loc[1].rtol10)

\* C10 as amended: the same with m replaced by r, the mean (taken with
\* 1e-5 added to the number of points) rounded to one decimal; in particular
\* points of flow (0.5, 0, 0) in a voxel of size 1 give (0, 0, 0) at rtol 0.3.
C10_QuantizedRoundedMean ==
    \A Lf \in FlowOccupied : \A comp \in 1..3 :
        \E r10 \in -200..200 :
            /\ IsRoundedMean(r10, SumOf(FlowRows(Lf[1], Lf[2]), 3 + comp),
                             Cardinality(FlowRows(Lf[1], Lf[2])))
            /\ IsBiasedFloor(loc[1].all_sflow[Lf[1]].data[Lf[2] + 1][comp],
                             10 * r10, 1,
                             self.voxel_sizes[Lf[1]], loc[1].rtol10)

\* C10 witness: the level-1 flow grid (voxel size 1) at rtol 0.3 of a cloud
\* whose points all carry the flow (0.5, 0, 0): an occupied voxel holds
\* (0, 0, 0).
C10_Witness ==
    /\ pc[1] = "done"
    /\ loc[1].rtol10 = 3
    /\ \A n \in 1..Len(loc[1].filtered_cloud_gt[1]) :
           SubSeq(loc[1].filtered_cloud_gt[1][n], 4, 6) = <<50, 0, 0>>
    /\ \E f \in Cells(loc[1].all_sflow[2]) :
           /\ <<2, f>> \in FlowOccupied
           /\ loc[1].all_sflow[2].data[f + 1] = <<0, 0, 0>>


-----------------------------------------------------------------------------
(* Claims about the choice between stored and computed grids, and about the  *)
(* order and the failure of the four-level build (checked under Spec)        *)

\* a stored ground-truth grid is configured: the list file names one per
\* sample
StoredConfigured == ctor = "ok" /\ ~IsNone(self.gt_voxel_filenames)

\* disparity is configured and no stored grid is
BuildConfigured ==
    /\ ctor = "ok"
    /\ IsNone(self.gt_voxel_filenames)
    /\ ~IsNone(self.disp_filenames)

\* the call of worker t has returned its record
Returned(t) == pc[t] = "done" /\ ~IsNone(loc[t].ret)

\* the grids the calls of calc_voxel_grid returned, in the order of the calls
Outs(t) ==
    [i \in 1..Len(loc[t].cvg_calls) |-> Val(loc[t].cvg_calls[i].out)]

\* C11: when a stored ground-truth grid is configured, calc_voxel_grid is
\* never invoked and the record returned holds as 'voxel_grid' what load_gt
\* returned; when none is configured and disparity is, load_gt is never
\* invoked and the record returned holds the four grids calc_voxel_grid
\* returned for levels 0..3.
C11_StoredGtBypassesBuild ==
    \A t \in Workers :
        /\ StoredConfigured =>
               /\ loc[t].cvg_calls = <<>>
               /\ Returned(t) =>
                      /\ ~IsNone(loc[t].loaded_gt)
                      /\ Val(loc[t].ret).voxel_grid
                             = Value(Val(loc[t].loaded_gt))
        /\ BuildConfigured =>
               /\ IsNone(loc[t].loaded_gt)
               /\ Returned(t) =>
                      /\ Len(loc[t].cvg_calls) = 4
                      /\ \A i \in 1..4 : loc[t].cvg_calls[i].level = i - 1
                      /\ Val(loc[t].ret).voxel_grid = Value(Outs(t))

\* C11 witness: a record returned under a configured stored grid, holding
\* the two grids the file held, for a sample whose filtered cloud is not
\* empty (so that a build would have had points to count)
C11_Witness ==
    /\ StoredConfigured
    /\ Returned(1)
    /\ Len(Val(loc[1].loaded_gt)) = 2
    /\ Val(loc[1].ret).voxel_grid = Value(Val(loc[1].loaded_gt))
    /\ Val(loc[1].filtered_cloud_gt) /= <<>>


\* C12: the calls of calc_voxel_grid of one sample are for levels 0, 1, 2, 3
\* in that order, each level at most once and none after a coarser one was
\* left; level 0 gets no parent grid and level L > 0 gets the grid the call
\* for level L - 1 returned; a record returned after a build holds exactly
\* the four grids returned, coarse to fine, each of its level's grid shape.
C12_ForwardOnlyBuild ==
    \A t \in Workers :
        LET calls == loc[t].cvg_calls
        IN  /\ Len(calls) <= 4
            /\ \A i \in 1..Len(calls) : calls[i].level = i - 1
            /\ Len(calls) > 0 => IsNone(calls[1].parent_grid)
            /\ \A i \in 2..Len(calls) :
                   /\ ~IsNone(calls[i - 1].out)
                   /\ calls[i].parent_grid = calls[i - 1].out
            /\ (BuildConfigured /\ Returned(t)) =>
                   /\ Len(calls) = 4
                   /\ Val(loc[t].ret).voxel_grid = Value(Outs(t))
                   /\ \A i \in 1..4 :
                          Outs(t)[i].shape = self.grid_sizes[i]

\* C12 witness: a record returned after four calls, the finest grid having
\* an occupied voxel and the grids growing from 1 voxel to 8 x 8 x 8
C12_Witness ==
    /\ BuildConfigured
    /\ Returned(1)
    /\ Len(loc[1].cvg_calls) = 4
    /\ Outs(1)[1].shape = <<1, 1, 1>>
    /\ Outs(1)[4].shape = <<8, 8, 8>>
    /\ \E f \in Cells(Outs(1)[4]) : Outs(1)[4].data[f + 1] = 1
    /\ \E f \in Cells(Outs(1)[4]) : Outs(1)[4].data[f + 1] = 0


Misaligned(L) ==
    \E a \in 1..3 : self.grid_sizes[L + 1][a] /= 2 * self.grid_sizes[L][a]

\* the levels 1..3 of the constructed object that are misaligned
MisalignedLevels ==
    IF ctor = "ok" THEN {L \in 1..3 : Misaligned(L)} ELSE {}

\* the generic RuntimeError was raised out of a call of calc_voxel_grid for
\* the given level
FailedAt(t, level) ==
    /\ pc[t] = "raised"
    /\ loc[t].exc = "Error in calculating voxel grids from point cloud"
    /\ loc[t].cvg_calls /= <<>>
    /\ LET last == loc[t].cvg_calls[Len(loc[t].cvg_calls)]
       IN  last.level = level /\ IsNone(last.out)

\* C14 as claimed: under a misaligned level L, every __getitem__ that got
\* its disparity and has ended has raised the generic RuntimeError out of
\* the call of calc_voxel_grid for level L.
C14_Claimed ==
    \A t \in Workers : \A L \in MisalignedLevels :
        (~IsNone(loc[t].disp_gt) /\ pc[t] \in {"done", "raised"})
            => FailedAt(t, L)

\* C14 as amended: under a misaligned level L and with no stored grid
\* configured, no record is returned for a sample with disparity, no call of
\* calc_voxel_grid for level L returns a grid and none is made for a finer
\* level, and a __getitem__ that got its disparity and has ended has raised
\* the generic RuntimeError out of the call for level L or for a coarser
\* level (itself misaligned, or of a gate that is not positive).
C14_MisalignedNeverBuilt ==
    \A t \in Workers : \A L \in MisalignedLevels :
        BuildConfigured =>
            /\ ~Returned(t)
            /\ \A i \in 1..Len(loc[t].cvg_calls) :
                   /\ loc[t].cvg_calls[i].level <= L
                   /\ loc[t].cvg_calls[i].level = L
                          => IsNone(loc[t].cvg_calls[i].out)
            /\ (~IsNone(loc[t].disp_gt) /\ pc[t] \in {"done", "raised"}) =>
                   \E K \in 0..L :
                       /\ FailedAt(t, K)
                       /\ K < L =>
                              \/ K \in MisalignedLevels
                              \/ OccupiedGate(self.occupied_gates, K) <= 0

\* C14 witness: voxel sizes (16, 8, 4, 4) and positive gates; levels 0..2
\* returned grids, the one of level 2 with an occupied voxel, and the call
\* for level 3, whose 4 x 4 x 4 voxels meet a parent mask of 8 x 8 x 8
\* entries, raised
C14_Witness ==
    /\ BuildConfigured
    /\ MisalignedLevels = {3}
    /\ \A l \in 0..3 : OccupiedGate(self.occupied_gates, l) > 0
    /\ FailedAt(1, 3)
    /\ Len(loc[1].cvg_calls) = 4
    /\ \E f \in Cells(Val(loc[1].cvg_calls[3].out)) :
           Val(loc[1].cvg_calls[3].out).data[f + 1] = 1
    /\ 8 * NumCells(Val(loc[1].cvg_calls[3].out).shape)
           /= NumCells(self.grid_sizes[4])

=============================================================================
